---- MODULE Spec2Model ----
(***************************************************************************)
(* Shawty URL shortener: the Mongo-backed store, the shortener service and *)
(* the HTTP handlers, as a state machine.  Each request runs on its own    *)
(* goroutine; the only shared state is the urls collection, so a request   *)
(* is cut into atomic steps at its store operations (InsertOne, FindOne).  *)
(***************************************************************************)
EXTENDS FiniteSets, Integers, Sequences, TLC

\* ------------------------------------------------------------------ bounds
\* Number of requests (goroutines) in one behaviour.
NumProcs == 2
\* Clock ticks per BSON millisecond (really 10^6 ns); time.Now() has a finer
\* resolution than the datetime MongoDB stores.
TicksPerMilli == 2
\* BSON milliseconds per RFC3339 second (really 1000).
MillisPerSecond == 2

Procs == 1..NumProcs

\* ------------------------------------------------------------------ inputs
\* Original URLs submitted by clients: one without a scheme, one http, one
\* https.  The two example.org URLs are a real collision of the 8-hex-digit
\* MD5 prefix.
URLs ==
  {"", "www.google.com", "http://example.org/160595", "https://example.org/2132"}

\* Identifiers asked for by clients ("deadbeef" belongs to no URL above).
ShortIDs == {"", "0a137b37", "d8ad6a62", "deadbeef"}

\* Arguments of the callers of the service that are not the handlers: what
\* a handler never passes on, and one value it does.
ServiceURLs == {"", "www.google.com"}

ServiceShortIDs == {"", "deadbeef"}

Host == "localhost:8080"

\* --------------------------------------------------------- package strings
HasPrefix(s, prefix) ==
  /\ Len(s) >= Len(prefix)
  /\ SubSeq(s, 1, Len(prefix)) = prefix

TrimPrefix(s, prefix) ==
  IF HasPrefix(s, prefix) THEN SubSeq(s, Len(prefix) + 1, Len(s)) ELSE s

Contains(s, substr) ==
  \E i \in 1..(Len(s) - Len(substr) + 1) :
     SubSeq(s, i, i + Len(substr) - 1) = substr

\* ---------------------------------------------------------- package errors
\* An error value is its message and the identities found along its %w
\* chain; nil is the value with nil = TRUE.
nil == [nil |-> TRUE, msg |-> "", is |-> {}]

ErrorsNew(text, identity) == [nil |-> FALSE, msg |-> text, is |-> {identity}]

\* fmt.Errorf(prefix + "%w", cause): the message is extended, the chain kept.
Errorf(prefix, cause) ==
  [nil |-> FALSE, msg |-> prefix \o cause.msg, is |-> cause.is]

\* fmt.Errorf without %w: a fresh error that wraps nothing.
ErrorfPlain(text) == [nil |-> FALSE, msg |-> text, is |-> {}]

ErrorsIs(err, target) == target \in err.is

\* --------------------------------------------------------- package domain
ZeroURL == [ID |-> "", OriginalUrl |-> "", ShortUrl |-> "", CreationDate |-> -1]

\* ------------------------------------------------------------ mongo driver
\* What InsertOne and FindOne hand back.  The texts are the driver's; a
\* transport failure's text names the topology, not the request.
MongoDuplicateKey(id) ==
  ErrorsNew("write exception: write errors: [E11000 duplicate key error collection: shawtydb.urls index: _id_ dup key: { _id: \""
              \o id \o "\" }]", "mongo.E11000")

MongoTransport ==
  ErrorsNew("server selection error: context deadline exceeded", "mongo.ServerSelectionError")

MongoErrNoDocuments ==
  ErrorsNew("mongo: no documents in result", "mongo.ErrNoDocuments")

IsDuplicateKeyError(err) == ErrorsIs(err, "mongo.E11000")

\* The datetime a time.Time becomes in BSON: truncated to the millisecond.
BsonDateTime(t) == t - (t % TicksPerMilli)

\* The document stored for a domain.URL (bson tags _id, original_url,
\* short_url, creation_date) and the domain.URL decoded from it.
Encode(u) ==
  [_id |-> u.ID, original_url |-> u.OriginalUrl, short_url |-> u.ShortUrl,
   creation_date |-> BsonDateTime(u.CreationDate)]

Decode(d) ==
  [ID |-> d._id, OriginalUrl |-> d.original_url, ShortUrl |-> d.short_url,
   CreationDate |-> d.creation_date]

\* Documents of the collection whose _id is id.
Find(coll, id) == {d \in coll : d._id = id}

\* InsertOne on a collection whose key is not unique.
InsertOutcome_NoUniqueKey(coll, doc, fails) ==
  IF fails THEN "transport" ELSE "inserted"

\* InsertOne under the unique index on _id: the outcome for this collection.
InsertOutcome(coll, doc, fails) ==
  IF fails THEN "transport"
  ELSE IF Find(coll, doc._id) # {} THEN "dupkey"
  ELSE "inserted"

\* An insert that overwrites the document already stored under the _id.
InsertOne_Replace(coll, doc, outcome) ==
  IF outcome = "transport" THEN coll
  ELSE (coll \ Find(coll, doc._id)) \cup {doc}

\* InsertOne: the collection after the insert.
InsertOne(coll, doc, outcome) ==
  IF outcome = "inserted" THEN coll \cup {doc} ELSE coll

InsertOneErr(outcome, doc) ==
  CASE outcome = "inserted"  -> nil
    [] outcome = "dupkey"    -> MongoDuplicateKey(doc._id)
    [] outcome = "transport" -> MongoTransport

\* ---------------------------------------------------------- package store
\* MongoUrlStore.Save: the error returned for InsertOne's error.
Save(urlEntry, err) ==
  IF ~err.nil
  THEN IF IsDuplicateKeyError(err)
       THEN Errorf("short URL '" \o urlEntry.ID \o "' already exists: ", err)
       ELSE Errorf("failed to insert URL into MongoDB: ", err)
  ELSE nil

\* GetByShortID reporting every failure of FindOne as a missing record.
GetByShortID_AllNotFound(shortID, found, err) ==
  IF ~err.nil
  THEN [url |-> ZeroURL,
        err |-> Errorf("URL with ID '" \o shortID \o "' not found: ", err)]
  ELSE [url |-> found, err |-> nil]

\* MongoUrlStore.GetByShortID: the (url, error) pair for FindOne's result.
GetByShortID(shortID, found, err) ==
  IF ~err.nil
  THEN IF ErrorsIs(err, "mongo.ErrNoDocuments")
       THEN [url |-> ZeroURL,
             err |-> Errorf("URL with ID '" \o shortID \o "' not found: ", err)]
       ELSE [url |-> ZeroURL,
             err |-> Errorf("error retrieving URL from MongoDB: ", err)]
  ELSE [url |-> found, err |-> nil]

\* -------------------------------------------------------- package service
ErrHashCollision == ErrorsNew("hash collision detected", "service.ErrHashCollision")

\* hex(md5(originalURL))[:8], tabulated for the URLs above.
generateShortID(originalURL) ==
  CASE originalURL = ""                          -> "d41d8cd9"
    [] originalURL = "www.google.com"            -> "0a137b37"
    [] originalURL = "http://example.org/160595" -> "d8ad6a62"
    [] originalURL = "https://example.org/2132"  -> "d8ad6a62"

\* A service result: the domain.URL or string returned, and the error.
Result(url, original, err) == [url |-> url, original |-> original, err |-> err]

\* A candidate whose ShortUrl is the submitted URL instead of the id.
urlToSave_ShortUrlIsOriginal(originalURL, t) ==
  [ID |-> generateShortID(originalURL), OriginalUrl |-> originalURL,
   ShortUrl |-> originalURL, CreationDate |-> t]

\* CreateShortURL up to the call of Save: the candidate record.
urlToSave(originalURL, t) ==
  [ID |-> generateShortID(originalURL), OriginalUrl |-> originalURL,
   ShortUrl |-> generateShortID(originalURL), CreationDate |-> t]

\* CreateShortURL after Save returned err: TRUE when it goes on to fetch the
\* existing entry.
Reconciles(err) == ~err.nil /\ ErrorsIs(err, "store.ErrDuplicateShortID")

\* CreateShortURL after Save returned err, when it does not reconcile.
CreateAfterSave(candidate, err) ==
  IF err.nil
  THEN Result(candidate, "", nil)
  ELSE Result(ZeroURL, "", Errorf("failed to save URL: ", err))

\* CreateShortURL after the reconciling GetByShortID returned.
CreateAfterGet(originalURL, shortID, got) ==
  IF got.err.nil
  THEN IF got.url.OriginalUrl = originalURL
       THEN Result(got.url, "", nil)
       ELSE Result(ZeroURL, "",
              [nil |-> FALSE,
               msg |-> ErrHashCollision.msg \o ": short ID '" \o shortID
                         \o "' generated for a different original URL (submitted: '"
                         \o originalURL \o "', existing: '"
                         \o got.url.OriginalUrl \o "')",
               is  |-> ErrHashCollision.is])
  ELSE Result(ZeroURL, "",
         Errorf("error retrieving existing URL for short ID '" \o shortID
                  \o "' after duplicate detection: ", got.err))

\* GetOriginalURL returning the wrong field of the record.
GetOriginalURLAfterGet_ShortUrl(got) ==
  IF ~got.err.nil THEN Result(ZeroURL, "", got.err)
  ELSE Result(ZeroURL, got.url.ShortUrl, nil)

\* GetOriginalURL after GetByShortID returned.
GetOriginalURLAfterGet(got) ==
  IF ~got.err.nil THEN Result(ZeroURL, "", got.err)
  ELSE Result(ZeroURL, got.url.OriginalUrl, nil)

\* -------------------------------------------------------- package handler
\* An HTTP request as the handlers read it.  The server listens on plain
\* TCP, so r.TLS is nil.
Request(method, path, valid, url) ==
  [method |-> method, path |-> path, host |-> Host, tls |-> FALSE,
   body |-> [valid |-> valid, URL |-> url]]

ShortenRequests ==
  {Request("POST", "/shorten", TRUE, u) : u \in URLs}
    \cup {Request("POST", "/shorten", FALSE, "")}

RedirectRequests ==
  {Request("GET", "/r/" \o id, FALSE, "") : id \in ShortIDs}

\* ------------------------------------------------------- browser client
\* Values of NEXT_PUBLIC_API_BASE_URL: unset, or the server's address.
ApiBaseUrlEnv == {"", "http://localhost:8080"}

\* handleShorten: process.env.NEXT_PUBLIC_API_BASE_URL || default.
apiBaseUrl(env) == IF env = "" THEN "http://localhost:8080/shorten" ELSE env

shortenEndpoint(env) == apiBaseUrl(env) \o "/shorten"

\* handleShorten: the request fetch() sends to the server at Host.
handleShorten(env, url) ==
  Request("POST", TrimPrefix(shortenEndpoint(env), "http://" \o Host), TRUE, url)

\* Requests that reach homeHandler: the client's, under its default base.
HomeRequests ==
  {handleShorten("", "www.google.com")}

HTTPRequests == ShortenRequests \cup RedirectRequests \cup HomeRequests

\* RegisterRoutes: the pattern of the ServeMux that serves a path.
RegisterRoutes(path) ==
  IF path = "/shorten" THEN "/shorten"
  ELSE IF HasPrefix(path, "/r/") THEN "/r/"
  ELSE "/"

Response(status, short_url, original_url, creation_date, location) ==
  [status |-> status, short_url |-> short_url, original_url |-> original_url,
   creation_date |-> creation_date, location |-> location]

\* http.Error(w, ..., status)
HttpError(status) == Response(status, "", "", -1, "")

NoResponse == Response(0, "", "", -1, "")

\* time.Time.Format(time.RFC3339): whole seconds.
FormatRFC3339(t) == t - (t % (TicksPerMilli * MillisPerSecond))

homeHandler(r) == IF r.path # "/" THEN HttpError(404) ELSE Response(200, "", "", -1, "")

\* shortenURLHandler without its test for an empty url.
ShortenReject_NoEmptyTest(r) ==
  IF r.method # "POST" THEN 405
  ELSE IF ~r.body.valid THEN 400
  ELSE 0

\* shortenURLHandler before the service call: the status it answers at
\* once, or 0 when it goes on to CreateShortURL.
ShortenReject(r) ==
  IF r.method # "POST" THEN 405
  ELSE IF ~r.body.valid THEN 400
  ELSE IF r.body.URL = "" THEN 400
  ELSE 0

\* shortenURLHandler answering every other error as a conflict.
ShortenErrorStatus_ConflictDefault(err) ==
  IF ErrorsIs(err, "service.ErrHashCollision") THEN 409
  ELSE IF Contains(err.msg, "duplicate") \/ Contains(err.msg, "already exists") THEN 409
  ELSE 409

\* shortenURLHandler without the defensive test of the error text.
ShortenErrorStatus_NoMarkers(err) ==
  IF ErrorsIs(err, "service.ErrHashCollision") THEN 409 ELSE 500

\* shortenURLHandler: the status chosen for an error of CreateShortURL.
ShortenErrorStatus(err) ==
  IF ErrorsIs(err, "service.ErrHashCollision") THEN 409
  ELSE IF Contains(err.msg, "duplicate") \/ Contains(err.msg, "already exists") THEN 409
  ELSE 500

\* shortenURLHandler after CreateShortURL returned.
ShortenRespond(r, result) ==
  IF ~result.err.nil THEN HttpError(ShortenErrorStatus(result.err))
  ELSE Response(201,
         (IF r.tls THEN "https" ELSE "http") \o "://" \o r.host \o "/r/"
            \o result.url.ShortUrl,
         result.url.OriginalUrl, FormatRFC3339(result.url.CreationDate), "")

\* redirectURLHandler: the identifier taken from the path.
RedirectShortID(r) == TrimPrefix(r.path, "/r/")

RedirectReject(r) ==
  IF r.method # "GET" THEN 405
  ELSE IF RedirectShortID(r) = "" THEN 400
  ELSE 0

\* redirectURLHandler comparing the whole error text, as the flat main.go does.
RedirectErrorStatus_ExactMatch(err) ==
  IF err.msg = "URL not found" THEN 404 ELSE 500

\* redirectURLHandler: the status chosen for an error of GetOriginalURL.
RedirectErrorStatus(err) ==
  IF Contains(err.msg, "not found") THEN 404 ELSE 500

\* redirectURLHandler testing for the https scheme only.
RedirectRespond_HttpsOnly(r, result) ==
  IF ~result.err.nil THEN HttpError(RedirectErrorStatus(result.err))
  ELSE IF ~HasPrefix(result.original, "https://")
       THEN Response(302, "", "", -1, "http://" \o result.original)
       ELSE Response(302, "", "", -1, result.original)

\* redirectURLHandler after GetOriginalURL returned.
RedirectRespond(r, result) ==
  IF ~result.err.nil THEN HttpError(RedirectErrorStatus(result.err))
  ELSE IF ~HasPrefix(result.original, "http://") /\ ~HasPrefix(result.original, "https://")
       THEN Response(302, "", "", -1, "http://" \o result.original)
       ELSE Response(302, "", "", -1, result.original)

\* ------------------------------------------------------------------ state
VARIABLES
  store,   \* the urls collection: a set of documents
  now,     \* the latest instant time.Now() has returned
  pc,      \* per request: "idle", "save", "get" or "done"
  req,     \* per request: what was asked (op, HTTP request, service argument)
  cand,    \* per request: urlToSave of CreateShortURL
  svc,     \* per request: what the service call returned
  resp,    \* per request: the HTTP response written
  calls,   \* per request: the store operations it made, in order
  pred     \* per request: the requests that had completed when it began

vars == <<store, now, pc, req, cand, svc, resp, calls, pred>>

NoReq == [op |-> "none", http |-> Request("", "", FALSE, ""), arg |-> ""]

NoResult == Result(ZeroURL, "", nil)

Init ==
  /\ store = {}
  /\ now = 0
  /\ pc = [p \in Procs |-> "idle"]
  /\ req = [p \in Procs |-> NoReq]
  /\ cand = [p \in Procs |-> ZeroURL]
  /\ svc = [p \in Procs |-> NoResult]
  /\ resp = [p \in Procs |-> NoResponse]
  /\ calls = [p \in Procs |-> <<>>]
  /\ pred = [p \in Procs |-> {}]

Done == {q \in Procs : pc[q] = "done"}

\* The response a handler writes once the service call has returned.
Respond(rq, result) ==
  CASE rq.op = "shorten"  -> ShortenRespond(rq.http, result)
    [] rq.op = "redirect" -> RedirectRespond(rq.http, result)
    [] OTHER              -> NoResponse

\* Request p begins as rq.
Begin(p, rq) ==
  /\ pc[p] = "idle"
  /\ req' = [req EXCEPT ![p] = rq]
  /\ pred' = [pred EXCEPT ![p] = Done]

\* The service call of request p returns result; its handler answers.
Return(p, rq, result) ==
  /\ pc' = [pc EXCEPT ![p] = "done"]
  /\ svc' = [svc EXCEPT ![p] = result]
  /\ resp' = [resp EXCEPT ![p] = Respond(rq, result)]

\* A handler answers without calling the service.
Answer(p, response) ==
  /\ pc' = [pc EXCEPT ![p] = "done"]
  /\ resp' = [resp EXCEPT ![p] = response]
  /\ UNCHANGED <<store, now, cand, svc, calls>>

\* CreateShortURL from its entry to the call of Save.
EnterCreateShortURL(p, rq) ==
  IF rq.arg = ""
  THEN /\ Return(p, rq, Result(ZeroURL, "", ErrorfPlain("original URL cannot be empty")))
       /\ UNCHANGED <<store, now, cand, calls>>
  ELSE \E t \in {now, now + 1} :
         /\ now' = t
         /\ cand' = [cand EXCEPT ![p] = urlToSave(rq.arg, t)]
         /\ pc' = [pc EXCEPT ![p] = "save"]
         /\ UNCHANGED <<store, svc, resp, calls>>

\* GetOriginalURL from its entry to the call of GetByShortID.
EnterGetOriginalURL(p, rq) ==
  IF rq.arg = ""
  THEN /\ Return(p, rq, Result(ZeroURL, "", ErrorfPlain("short ID cannot be empty")))
       /\ UNCHANGED <<store, now, cand, calls>>
  ELSE /\ pc' = [pc EXCEPT ![p] = "get"]
       /\ UNCHANGED <<store, now, cand, svc, resp, calls>>

\* ---------------------------------------------------------------- actions
\* GET or POST on a path the mux gives to homeHandler.
HomeRequest(p) ==
  \E r \in HTTPRequests :
    /\ RegisterRoutes(r.path) = "/"
    /\ Begin(p, [op |-> "home", http |-> r, arg |-> ""])
    /\ Answer(p, homeHandler(r))

\* A request on /shorten, up to the call of Save.
ShortenRequest(p) ==
  \E r \in HTTPRequests :
    /\ RegisterRoutes(r.path) = "/shorten"
    /\ LET rq == [op |-> "shorten", http |-> r, arg |-> r.body.URL] IN
         /\ Begin(p, rq)
         /\ IF ShortenReject(r) # 0
            THEN Answer(p, HttpError(ShortenReject(r)))
            ELSE EnterCreateShortURL(p, rq)

\* A request on /r/..., up to the call of GetByShortID.
RedirectRequest(p) ==
  \E r \in HTTPRequests :
    /\ RegisterRoutes(r.path) = "/r/"
    /\ LET rq == [op |-> "redirect", http |-> r, arg |-> RedirectShortID(r)] IN
         /\ Begin(p, rq)
         /\ IF RedirectReject(r) # 0
            THEN Answer(p, HttpError(RedirectReject(r)))
            ELSE EnterGetOriginalURL(p, rq)

\* A caller of UrlServiceInterface.CreateShortURL other than the handler.
CreateCall(p) ==
  \E u \in ServiceURLs :
    LET rq == [op |-> "create", http |-> NoReq.http, arg |-> u] IN
      /\ Begin(p, rq)
      /\ EnterCreateShortURL(p, rq)

\* A caller of UrlServiceInterface.GetOriginalURL other than the handler.
LookupCall(p) ==
  \E id \in ServiceShortIDs :
    LET rq == [op |-> "lookup", http |-> NoReq.http, arg |-> id] IN
      /\ Begin(p, rq)
      /\ EnterGetOriginalURL(p, rq)

\* Save: InsertOne on the collection, and CreateShortURL's handling of its
\* error up to the return or to the reconciling GetByShortID.
SaveStep(p) ==
  /\ pc[p] = "save"
  /\ \E fails \in BOOLEAN :
       LET doc     == Encode(cand[p])
           outcome == InsertOutcome(store, doc, fails)
           err     == Save(cand[p], InsertOneErr(outcome, doc))
       IN  /\ store' = InsertOne(store, doc, outcome)
           /\ calls' = [calls EXCEPT ![p] =
                          Append(@, [op |-> "Save", id |-> doc._id, outcome |-> outcome])]
           /\ IF Reconciles(err)
              THEN /\ pc' = [pc EXCEPT ![p] = "get"]
                   /\ UNCHANGED <<svc, resp>>
              ELSE Return(p, req[p], CreateAfterSave(cand[p], err))
  /\ UNCHANGED <<now, req, cand, pred>>

\* GetByShortID: FindOne on the collection, and the rest of the service call
\* that made it (GetOriginalURL, or CreateShortURL reconciling a duplicate).
GetStep(p) ==
  /\ pc[p] = "get"
  /\ LET creating == req[p].op \in {"shorten", "create"}
         shortID  == IF creating THEN cand[p].ID ELSE req[p].arg
         after(got) == IF creating
                       THEN CreateAfterGet(req[p].arg, shortID, got)
                       ELSE GetOriginalURLAfterGet(got)
         finish(outcome, got) ==
           /\ calls' = [calls EXCEPT ![p] =
                          Append(@, [op |-> "GetByShortID", id |-> shortID, outcome |-> outcome])]
           /\ Return(p, req[p], after(got))
     IN \/ finish("transport", GetByShortID(shortID, ZeroURL, MongoTransport))
        \/ /\ Find(store, shortID) = {}
           /\ finish("nodocuments", GetByShortID(shortID, ZeroURL, MongoErrNoDocuments))
        \/ \E d \in Find(store, shortID) :
             finish("found", GetByShortID(shortID, Decode(d), nil))
  /\ UNCHANGED <<store, now, req, cand, pred>>

Next ==
  \E p \in Procs :
    \/ HomeRequest(p)
    \/ ShortenRequest(p)
    \/ RedirectRequest(p)
    \/ CreateCall(p)
    \/ LookupCall(p)
    \/ SaveStep(p)
    \/ GetStep(p)

Spec == Init /\ [][Next]_vars

\* ------------------------------------------------- vocabulary of the claims
\* Request p made a complete call of CreateShortURL / GetOriginalURL.
CreateReturned(p) ==
  /\ pc[p] = "done"
  /\ \/ req[p].op = "create"
     \/ req[p].op = "shorten" /\ ShortenReject(req[p].http) = 0

LookupReturned(p) ==
  /\ pc[p] = "done"
  /\ \/ req[p].op = "lookup"
     \/ req[p].op = "redirect" /\ RedirectReject(req[p].http) = 0

\* The outcomes of the store operations request p made.
Outcomes(p, op) ==
  {calls[p][i].outcome : i \in {j \in DOMAIN calls[p] : calls[p][j].op = op}}

IOFailed(p) == \E i \in DOMAIN calls[p] : calls[p][i].outcome = "transport"

\* q began after p had returned.
Successive(p, q) == p \in pred[q]

IsHashCollision(err) == ~err.nil /\ ErrorsIs(err, "service.ErrHashCollision")

IsNotFound(err) == ~err.nil /\ ErrorsIs(err, "mongo.ErrNoDocuments")

\* --------------------------------------------------------------------- C1
\* C1: two successive CreateShortURL(s) calls for the same non-empty s, with
\* no store I/O failure, both succeed with the same ID and OriginalUrl, and
\* the second returns the creation date the first one stored.
C1_IdempotentCreation ==
  \A p, q \in Procs :
    ( /\ CreateReturned(p) /\ CreateReturned(q) /\ Successive(p, q)
      /\ req[p].arg = req[q].arg /\ req[p].arg # ""
      /\ ~IOFailed(p) /\ ~IOFailed(q) )
    => /\ svc[p].err.nil /\ svc[q].err.nil
       /\ svc[q].url.ID = svc[p].url.ID
       /\ svc[q].url.OriginalUrl = svc[p].url.OriginalUrl
       /\ \A d \in Find(store, svc[p].url.ID) :
            svc[q].url.CreationDate = d.creation_date

\* --------------------------------------------------------------------- C2
\* C2: when every request is a CreateShortURL(s) of one non-empty s, all
\* begun on the empty store before any returned, and no store operation
\* fails, the store ends with one record and every caller got a record with
\* the same ID.
C2_ConcurrentCreation ==
  ( /\ \A p \in Procs : CreateReturned(p) /\ pred[p] = {} /\ ~IOFailed(p)
    /\ \A p, q \in Procs : req[p].arg = req[q].arg /\ req[p].arg # "" )
  => /\ Cardinality(store) = 1
     /\ \A p \in Procs : svc[p].err.nil
     /\ \A p, q \in Procs : svc[p].url.ID = svc[q].url.ID

\* --------------------------------------------------------------------- C3
\* C3: when s1 # s2 derive the same id and s1 was stored first, a later
\* CreateShortURL(s2) fails with ErrHashCollision and the store holds
\* exactly the s1 record under that id.
C3_CollisionDetection ==
  \A p, q \in Procs :
    ( /\ CreateReturned(p) /\ CreateReturned(q) /\ Successive(p, q)
      /\ svc[p].err.nil /\ req[q].arg # "" /\ req[q].arg # req[p].arg
      /\ generateShortID(req[q].arg) = generateShortID(req[p].arg)
      /\ ~IOFailed(q) )
    => /\ IsHashCollision(svc[q].err)
       /\ Find(store, svc[p].url.ID) = {Encode(svc[p].url)}

\* --------------------------------------------------------------------- C4
\* C4: once CreateShortURL(s) has returned a record r, the store holds a
\* document under r.ID, GetOriginalURL finds s in every such document, and
\* every later GetOriginalURL(r.ID) that met no I/O failure returned s.
C4_RoundTrip ==
  \A p \in Procs :
    (CreateReturned(p) /\ svc[p].err.nil)
    => /\ Find(store, svc[p].url.ID) # {}
       /\ \A d \in Find(store, svc[p].url.ID) :
            LET got == GetOriginalURLAfterGet(GetByShortID(svc[p].url.ID, Decode(d), nil))
            IN  got.err.nil /\ got.original = req[p].arg
       /\ \A q \in Procs :
            ( /\ LookupReturned(q) /\ Successive(p, q)
              /\ req[q].arg = svc[p].url.ID /\ ~IOFailed(q) )
            => svc[q].err.nil /\ svc[q].original = req[p].arg

C4_Witness ==
  \E p, q \in Procs :
    /\ CreateReturned(p) /\ svc[p].err.nil
    /\ LookupReturned(q) /\ Successive(p, q)
    /\ req[q].arg = svc[p].url.ID /\ ~IOFailed(q)
    /\ svc[q].original = req[p].arg

\* --------------------------------------------------------------------- C5
\* The requests whose Save of a record with this id reached the collection.
Savers(id) ==
  {p \in Procs : \E i \in DOMAIN calls[p] :
     /\ calls[p][i].op = "Save" /\ calls[p][i].id = id
     /\ calls[p][i].outcome # "transport"}

\* C5: the collection never holds two documents with one _id, and of the
\* saves of one id that reach it, concurrent or not, exactly one is
\* accepted and every other one is refused as a duplicate key.
C5_StoreUniqueness ==
  /\ \A d1, d2 \in store : d1._id = d2._id => d1 = d2
  /\ \A q \in Procs :
       LET S == Savers(cand[q].ID) IN
         S # {} =>
           /\ Cardinality({p \in S : Outcomes(p, "Save") = {"inserted"}}) = 1
           /\ \A p \in S : Outcomes(p, "Save") \in {{"inserted"}, {"dupkey"}}

C5_Witness ==
  \E p, q \in Procs :
    /\ p # q /\ pred[p] = {} /\ pred[q] = {}
    /\ cand[p].ID = cand[q].ID
    /\ Outcomes(p, "Save") = {"inserted"}
    /\ Outcomes(q, "Save") = {"dupkey"}

\* --------------------------------------------------------------------- C6
\* C6: a CreateShortURL whose Save was refused as a duplicate fetched the
\* existing entry and returned it, ErrHashCollision or the failure of that
\* fetch, and never an error carrying Save's duplicate-key error.
C6_DuplicateIsInternal ==
  \A p \in Procs :
    (CreateReturned(p) /\ "dupkey" \in Outcomes(p, "Save"))
    => /\ Outcomes(p, "GetByShortID") # {}
       /\ ~IsDuplicateKeyError(svc[p].err)
       /\ \/ svc[p].err.nil /\ Encode(svc[p].url) \in store
          \/ IsHashCollision(svc[p].err)
          \/ Contains(svc[p].err.msg, "after duplicate detection")

\* --------------------------------------------------------------------- C7
\* C7: two successive POST /shorten with the same non-empty url and Host,
\* with no store I/O failure, are both answered 201 with the same
\* short_url suffix /r/<id>.
C7_ShortenTwice ==
  \A p, q \in Procs :
    ( /\ req[p].op = "shorten" /\ req[q].op = "shorten"
      /\ CreateReturned(p) /\ CreateReturned(q) /\ Successive(p, q)
      /\ req[p].http = req[q].http
      /\ ~IOFailed(p) /\ ~IOFailed(q) )
    => /\ resp[p].status = 201 /\ resp[q].status = 201
       /\ resp[p].short_url = resp[q].short_url
       /\ TrimPrefix(resp[q].short_url, "http://" \o req[q].http.host)
            = "/r/" \o generateShortID(req[q].arg)

Collides(p) ==
  \E d \in Find(store, cand[p].ID) : d.original_url # req[p].arg

\* C9: the step that completes a POST /shorten whose CreateShortURL failed
\* with ErrHashCollision, or whose Save reached a collection holding the
\* derived id under a different original URL, answers 409 and leaves the
\* collection as it was.
C9_CollisionConflict ==
  [][\A p \in Procs :
       ( /\ req[p].op = "shorten" /\ pc[p] # "done" /\ pc'[p] = "done"
         /\ \/ IsHashCollision(svc'[p].err)
            \/ pc[p] = "save" /\ Collides(p) /\ ~IOFailed(p)' )
       => resp'[p].status = 409 /\ store' = store]_vars

C9_Witness ==
  \E p \in Procs :
    /\ req[p].op = "shorten" /\ pc[p] = "done"
    /\ Outcomes(p, "Save") = {"dupkey"} /\ Collides(p)
    /\ resp[p].status = 409

\* -------------------------------------------------------------------- C10
\* C10: the step that completes a GetOriginalURL(id) for a non-empty id the
\* collection does not hold, without I/O failure, returns the not-found
\* error, the redirect handler answers it 404, and the collection is left
\* as it was.
C10_LookupMiss ==
  [][\A p \in Procs :
       ( /\ req[p].op \in {"lookup", "redirect"}
         /\ pc[p] = "get" /\ pc'[p] = "done"
         /\ req[p].arg # "" /\ Find(store, req[p].arg) = {}
         /\ ~IOFailed(p)' )
       => /\ IsNotFound(svc'[p].err)
          /\ req[p].op = "redirect" => resp'[p].status = 404
          /\ store' = store]_vars

C10_Witness ==
  \E p, q \in Procs :
    /\ req[p].op = "redirect" /\ pc[p] = "done"
    /\ req[q].op = "lookup" /\ pc[q] = "done"
    /\ Outcomes(p, "GetByShortID") = {"nodocuments"}
    /\ Outcomes(q, "GetByShortID") = {"nodocuments"}
    /\ IsNotFound(svc[p].err) /\ IsNotFound(svc[q].err)
    /\ resp[p].status = 404

RedirectTarget(original) ==
  IF HasPrefix(original, "http://") \/ HasPrefix(original, "https://")
  THEN original
  ELSE "http://" \o original

\* C12: the step that completes a GET /r/{id} for an id the collection
\* holds, without I/O failure, answers 302 with the Location made from the
\* stored original URL, and leaves the collection as it was.
C12_RedirectSuccess ==
  [][\A p \in Procs :
       ( /\ req[p].op = "redirect" /\ pc[p] = "get" /\ pc'[p] = "done"
         /\ Find(store, req[p].arg) # {} /\ ~IOFailed(p)' )
       => /\ resp'[p].status = 302
          /\ \E d \in Find(store, req[p].arg) :
               resp'[p].location = RedirectTarget(d.original_url)
          /\ store' = store]_vars

C12_Witness ==
  \E p \in Procs : \E d \in Find(store, req[p].arg) :
    /\ req[p].op = "redirect" /\ pc[p] = "done"
    /\ resp[p].status = 302
    /\ d.original_url = "www.google.com"
    /\ resp[p].location = "http://www.google.com"

\* -------------------------------------------------------------------- C13
\* The requests the claim calls invalid: an unparsable body or an empty url
\* on POST /shorten, an empty id on GET /r/, an empty argument of the
\* service.
InvalidInput(rq) ==
  \/ /\ rq.op = "shorten" /\ rq.http.method = "POST"
     /\ ~rq.http.body.valid \/ rq.http.body.URL = ""
  \/ rq.op = "redirect" /\ rq.http.method = "GET" /\ rq.arg = ""
  \/ rq.op \in {"create", "lookup"} /\ rq.arg = ""

\* C13: a request with invalid input completes in the step it begins with:
\* it makes no store operation and leaves the collection as it was, the
\* handler answers 400, the service returns an error and no value.
C13_InvalidInputRejected ==
  [][\A p \in Procs :
       (pc[p] = "idle" /\ pc'[p] # "idle" /\ InvalidInput(req'[p]))
       => /\ pc'[p] = "done"
          /\ calls'[p] = <<>>
          /\ store' = store
          /\ req'[p].op \in {"shorten", "redirect"} => resp'[p].status = 400
          /\ req'[p].op \in {"create", "lookup"} =>
               /\ ~svc'[p].err.nil
               /\ svc'[p].url = ZeroURL /\ svc'[p].original = ""]_vars

C13_Witness ==
  \E p \in Procs :
    /\ pc[p] = "done" /\ store # {}
    /\ req[p].op = "shorten" /\ req[p].http.body.valid /\ InvalidInput(req[p])
    /\ resp[p].status = 400
    /\ calls[p] = <<>>

\* -------------------------------------------------------------------- C14
\* C14: no step removes a document of the collection or puts a different
\* document under an _id it already holds; the stored ids only grow.
C14_WriteOnce ==
  [][\A d \in store :
       /\ d \in store'
       /\ \A e \in store' : e._id = d._id => e = d]_vars

C14_Witness ==
  \E p \in Procs :
    /\ pc[p] = "done"
    /\ Outcomes(p, "Save") = {"dupkey"}
    /\ Find(store, cand[p].ID) # {}
    /\ Encode(cand[p]) \notin store

\* -------------------------------------------------------------------- C15
HexDigits == {"0", "1", "2", "3", "4", "5", "6", "7", "8", "9",
              "a", "b", "c", "d", "e", "f"}

\* Eight lowercase hexadecimal digits.
IsShortID(id) ==
  /\ Len(id) = 8
  /\ \A i \in 1..8 : SubSeq(id, i, i) \in HexDigits

\* C15: every record handed to Save and every document of the collection
\* has its id as short_url, a non-empty original_url, and the 8-hex-digit
\* id derived from that original_url.
C15_WellFormed ==
  /\ \A p \in Procs :
       cand[p] # ZeroURL
       => /\ cand[p].ID = cand[p].ShortUrl
          /\ cand[p].OriginalUrl # ""
          /\ cand[p].OriginalUrl = req[p].arg
          /\ cand[p].ID = generateShortID(cand[p].OriginalUrl)
          /\ IsShortID(cand[p].ID)
  /\ \A d \in store :
       /\ d._id = d.short_url
       /\ d.original_url # ""
       /\ d._id = generateShortID(d.original_url)
       /\ IsShortID(d._id)

C15_Witness ==
  /\ Cardinality(store) = 2
  /\ \A p \in Procs : Outcomes(p, "Save") = {"inserted"}

\* -------------------------------------------------------------------- C16
\* What the browser client sends for a non-empty url ("if (!url) return").
ClientRequests ==
  {handleShorten(env, u) : env \in ApiBaseUrlEnv, u \in URLs \ {""}}

\* C16: a shorten request of the browser client, under every value of its
\* API base URL including the default, is a POST with a url body served by
\* shortenURLHandler and not by the 404 catch-all, and a 201 answer carries
\* the short_url the client reads.
C16_FrontendContract ==
  \A p \in Procs :
    (pc[p] = "done" /\ req[p].op # "none" /\ req[p].http \in ClientRequests)
    => /\ req[p].http.method = "POST" /\ req[p].http.body.valid
       /\ req[p].http.path = "/shorten"
       /\ req[p].op = "shorten"
       /\ resp[p].status # 404
       /\ resp[p].status = 201 => resp[p].short_url # ""

\* -------------------------------------------------------------------- C17
\* C17: of two concurrent CreateShortURL calls with distinct non-empty URLs
\* that derive one id, begun on the empty store and free of I/O failure,
\* exactly one returns its own record and the other fails with
\* ErrHashCollision; neither receives a record of another URL, and the
\* collection ends holding only the winner's record.
C17_ConcurrentCollision ==
  \A p, q \in Procs :
    ( /\ p # q /\ CreateReturned(p) /\ CreateReturned(q)
      /\ pred[p] = {} /\ pred[q] = {}
      /\ req[p].arg # "" /\ req[q].arg # "" /\ req[p].arg # req[q].arg
      /\ generateShortID(req[p].arg) = generateShortID(req[q].arg)
      /\ ~IOFailed(p) /\ ~IOFailed(q)
      /\ \A r \in Procs \ {p, q} : calls[r] = <<>> )
    => /\ \A r \in {p, q} : svc[r].err.nil => svc[r].url.OriginalUrl = req[r].arg
       /\ \E w \in {p, q} :
            /\ svc[w].err.nil
            /\ store = {Encode(svc[w].url)}
            /\ \A l \in {p, q} \ {w} : IsHashCollision(svc[l].err)

====
